---- MODULE Spec2Model ----
(***************************************************************************)
(* A model of redical's Connection (src/redical/connection.py): the        *)
(* resolver queue, the pipeline buffer, the pipeline and transaction       *)
(* scopes, the background reader and close, together with the byte stream  *)
(* to a RESP server and the server's WATCH/MULTI/EXEC behaviour.           *)
(*                                                                         *)
(* Every command gets an identity (1, 2, ...) when it is built; the future *)
(* execute() creates for it carries the same identity, and every reply     *)
(* carries the identity of the command the server answered with it.  These *)
(* identities are not in the program; they let the properties say whose    *)
(* reply a future received.                                                *)
(*                                                                         *)
(* Scheduling is asyncio's: one step of the model is the code one task     *)
(* runs between two suspension points.  StreamWriter.drain() is taken not  *)
(* to suspend on an open transport (the write buffer stays under the       *)
(* high-water mark); on a closed transport it raises ConnectionResetError. *)
(* The reader is run on one reply per read.                                *)
(*                                                                         *)
(* Spec is the connection while it stays open; SpecClose adds close(),     *)
(* wait_closed() and the server closing the stream, with fewer commands;   *)
(* SpecCancel is Spec with callers that cancel futures.                    *)
(*                                                                         *)
(* ConnectionPool (src/redical/pool.py) is modelled with its connections   *)
(* reduced to what the pool reads of them: is_closed, is_closing, in_use.  *)
(* A run of SpecAny uses either a connection of its own, as in SpecClose,  *)
(* or a pool and the tasks calling it; a run of SpecPool uses a pool.      *)
(* SpecRing is a larger pool used through execute() only, SpecCrowd a pool *)
(* of one connection used by three tasks, and SpecReject is Spec with a    *)
(* server that rejects commands as it queues them inside MULTI.            *)
(***************************************************************************)
EXTENDS Naturals, Sequences, FiniteSets

\* Commands (and futures) ever created on the connection, the synthetic WATCH,
\* UNWATCH, MULTI and EXEC included.
MaxCmds == 5

\* Calls of execute() by callers, in a run where the connection stays open
\* (Spec) and in a run where it may be closed (SpecClose).
MaxUser == 2

MaxUserClose == 1

\* The futures a run cancels.
MaxCancels == 1

\* The verb of a command a caller passes to execute(): the model does not tell
\* SET from GET, the server answers a caller's command with any of Shapes.
UserKinds == {"CMD"}

\* The shapes of the reply to a caller's command: +OK, a bulk string, nil and
\* an array (of ArrayLen bulk strings).
Shapes == {"OK", "val", "nil", "arr"}

ArrayLen == 2

Ids == 1..MaxCmds

\* The pool: max_size and min_size of the pool modelled, the connections it
\* ever opens and the tasks that use it.
MaxSize == 2

\* max_size, and the largest min_size, of the pools whose idle ring is examined
\* at length (SpecRing).
RingMax == 4

MinSize == 1

MaxMembers == 2

MaxPoolTasks == 2

\* max_size of the pool that more tasks than it has connections use at once
\* (SpecCrowd), and the number of those tasks.
CrowdMax == 1

MaxCrowd == 3

\* Pool scopes a task has open at once, one inside the other.
MaxDepth == 2

Members == 1..MaxMembers

PoolTasks == 1..MaxPoolTasks

Crowd == 1..MaxCrowd

\* The holder of the pool condition's lock: 0 (free), a task, or the task
\* close() starts.
CloserId == MaxCrowd + 1

RingMembers == 1..(RingMax + 1)

VARIABLES
    closing,          \* Connection._closing
    cancelEvent,      \* Connection._read_data_cancel_event.is_set()
    writerClosing,    \* Connection._writer.is_closing()
    in_pipeline,      \* Connection._in_pipeline
    in_transaction,   \* Connection._in_transaction
    pipeline_buffer,  \* Connection._pipeline_buffer, as the commands encoded in it
    resolvers,        \* Connection._resolvers
    watched_keys,     \* Connection._watched_keys
    readerPc,         \* Connection._read_data_task: "read", "cancelling", "done"
    fut,              \* the futures created by execute() and __aexit__
    locked,           \* PipelineFutureWrapper._pipeline_in_progress of each future
    cmd,              \* the verb of each command built so far ("none": not built)
    nextId,           \* the identity of the next command
    stream,           \* commands written to the stream the server has not read yet
    written,          \* every command written to the stream, in order
    srv,              \* the server's per-connection state
    srvClosed,        \* the server has closed the stream: the reader sees EOF
    pc,               \* where the scope-owning task is
    stk,              \* the scopes that task has open, innermost last
    local,            \* locals of the __aexit__ or transaction() frame in progress
    call,             \* the latest API call, its argument and what it raised
    subject,          \* what the run uses: a connection of its own, or a pool
    pool_closing,     \* ConnectionPool._closing
    close_event,      \* ConnectionPool._close_event.is_set()
    idle,             \* ConnectionPool._pool
    loaned,           \* ConnectionPool._in_use
    acquiring,        \* ConnectionPool._acquiring
    mem,              \* the pool's connections, by what the pool reads of them
    lock,             \* who holds ConnectionPool._connections_condition
    waiters,          \* the tasks parked in _connections_condition.wait()
    ptask,            \* the tasks using the pool
    held,             \* per task, the connections its open pool scopes acquired
    closer            \* the task running _close_all_connections

connVars == <<closing, cancelEvent, writerClosing, in_pipeline, in_transaction,
              pipeline_buffer, resolvers, watched_keys, readerPc>>
futVars == <<fut, locked, cmd, nextId>>
wireVars == <<stream, written, srv, srvClosed>>
taskVars == <<pc, stk, local, call>>
poolVars == <<subject, pool_closing, close_event, idle, loaned, acquiring, mem, lock,
              waiters, ptask, held, closer>>
vars == <<connVars, futVars, wireVars, taskVars, poolVars>>

----------------------------------------------------------------------------
\* Futures and resolvers

NoFuture == [st |-> "none", val |-> "none", src |-> 0]
Pending == [st |-> "pending", val |-> "none", src |-> 0]

\* Future.set_exception with an exception that is no server reply.
Failed(exc) == [st |-> "exception", val |-> exc, src |-> 0]

Resolver(f, w) == [fut |-> f, wrapped |-> w]

\* The frame of a scope entry or exit that is suspended: the futures __aexit__
\* gathers (resolvers), the future awaited (wait), how the body ended (disp),
\* and for the record the commands the scope buffered (futs), whether it was
\* inside a transaction (nested) and what the exit wrote (wrote).
Frame(rs, d, w, fs, n, wr) ==
    [resolvers |-> rs, disp |-> d, wait |-> w, futs |-> fs, nested |-> n, wrote |-> wr]

NoLocal == Frame(<<>>, "none", 0, <<>>, FALSE, <<>>)

\* The latest API call: its name, its argument (a scope exit's disposition) and
\* the exception it raised ("none": it returned; "pending": it is suspended).
Called(o, a, e) == [op |-> o, arg |-> a, raised |-> e]

\* Future.done(): a result, an exception or a cancellation
IsDone(f) == fut[f].st \in {"result", "exception", "cancelled"}

\* A future after cancel()
Cancelled == [st |-> "cancelled", val |-> "CancelledError", src |-> 0]

Top == IF stk = <<>> THEN "none" ELSE stk[Len(stk)]
Pop == SubSeq(stk, 1, Len(stk) - 1)

RECURSIVE SeqToSet(_)
SeqToSet(s) == IF s = <<>> THEN {} ELSE {Head(s)} \cup SeqToSet(Tail(s))

----------------------------------------------------------------------------
\* Connection properties

at_eof == srvClosed

is_closed == cancelEvent \/ (at_eof /\ writerClosing)

is_closing == closing

in_use == Len(resolvers) > 0 \/ in_pipeline

\* The error execute(), transaction() and __aenter__ raise on entry, closed first.
ClosedCheck ==
    IF is_closed THEN "ConnectionClosedError"
    ELSE IF is_closing THEN "ConnectionClosingError"
    ELSE "none"

----------------------------------------------------------------------------
\* _decode and the reader's 'OK' -> True conversion

Decode(kind) == IF kind = "OK" THEN "True" ELSE kind

\* What the reader sets on the popped resolver's future for one parsed value.
Fulfil(e) ==
    IF e.kind = "err"
    THEN [st |-> "exception", val |-> "ResponseError", src |-> e.cmd]
    ELSE [st |-> "result", val |-> Decode(e.kind), src |-> e.cmd]

\* The for loop over parsed_results: one popleft per element.  An empty deque
\* (IndexError) or a future that is already done (InvalidStateError) ends the
\* loop through the reader's catch-all handler, the rest being dropped.
RECURSIVE Dispatch(_, _, _)
Dispatch(elems, rs, fs) ==
    IF elems = <<>> \/ rs = <<>>
    THEN [resolvers |-> rs, fut |-> fs]
    ELSE LET r == Head(rs)
             e == Head(elems)
         IN  IF fs[r.fut].st # "pending"
             THEN [resolvers |-> Tail(rs), fut |-> fs]
             ELSE Dispatch(Tail(elems), Tail(rs), [fs EXCEPT ![r.fut] = Fulfil(e)])

\* popleft and set_exception(exc) on every queued resolver's future, front to
\* back; set_exception on a future that is done or cancelled raises
\* InvalidStateError and ends the loop, the rest staying queued.
RECURSIVE FailAll(_, _, _)
FailAll(rs, fs, exc) ==
    IF rs = <<>> THEN [resolvers |-> <<>>, fut |-> fs, ok |-> TRUE]
    ELSE IF fs[Head(rs).fut].st # "pending"
    THEN [resolvers |-> Tail(rs), fut |-> fs, ok |-> FALSE]
    ELSE FailAll(Tail(rs), [fs EXCEPT ![Head(rs).fut] = Failed(exc)], exc)

\* The parsed_results the reader iterates over for a top-level reply.
ParsedResults(r) ==
    IF in_transaction /\ r.kind = "arr"
    THEN r.elems
    ELSE <<[cmd |-> r.cmd, kind |-> r.kind]>>

----------------------------------------------------------------------------
\* The server

Elem(c, kind) == [cmd |-> c, kind |-> kind]

Reply(c, kind, elems) == [cmd |-> c, kind |-> kind, elems |-> elems]

\* The reply of shape sh to command c executed outside MULTI; WATCH, UNWATCH
\* and MULTI are answered +OK.  The elements of an array reply are marked
\* "item": a future that holds one got a part of a reply, not a reply.
PlainReply(c, sh) ==
    IF cmd[c] \in UserKinds
    THEN Reply(c, sh, IF sh = "arr" THEN [i \in 1..ArrayLen |-> Elem(c, "item")] ELSE <<>>)
    ELSE Reply(c, "OK", <<>>)

\* The EXEC array: one element per queued command, in queue order, of the
\* shapes shs.
ExecElems(q, shs) == [i \in 1..Len(q) |-> Elem(q[i], shs[i])]

\* The reply the server gives to the next command on the stream, and its
\* state afterwards.  sh is the shape of the answer to a caller's command,
\* shs the shapes of the results of the queued commands at EXEC, and conflict
\* says that another client touched a watched key since WATCH.
ServerReply(c, sh, shs, conflict) ==
    IF cmd[c] = "EXEC"
    THEN IF ~srv.multi THEN Reply(c, "err", <<>>)
         ELSE IF conflict THEN Reply(c, "nil", <<>>)
         ELSE Reply(c, "arr", ExecElems(srv.queue, shs))
    ELSE IF srv.multi THEN Reply(c, "QUEUED", <<>>)
    ELSE PlainReply(c, sh)

\* aborted names the latest EXEC the server answered with nil (0: none), and
\* dirty says that the server refused to queue a command of the open MULTI.
ServerAfter(c, conflict) ==
    IF cmd[c] = "EXEC"
    THEN [multi |-> FALSE, queue |-> <<>>, watching |-> FALSE,
          aborted |-> IF srv.multi /\ conflict THEN c ELSE srv.aborted, dirty |-> FALSE]
    ELSE IF srv.multi
    THEN [srv EXCEPT !.queue = Append(@, c)]
    ELSE [srv EXCEPT !.multi = (cmd[c] = "MULTI"),
                     !.watching = IF cmd[c] = "WATCH" THEN TRUE
                                  ELSE IF cmd[c] = "UNWATCH" THEN FALSE
                                  ELSE @]

-----------------------------------------------------------------------------
\* ConnectionPool: what the pool reads of its connections

\* A connection of the pool: whether it was opened, Connection._closing, whether
\* close() ever ran (the writer is closing), the stream at EOF, the reader
\* task's event, the resolvers queued on it and Connection._in_pipeline.
NoMember ==
    [made |-> FALSE, closing |-> FALSE, shut |-> FALSE, eof |-> FALSE, event |-> FALSE,
     pending |-> 0, piped |-> FALSE]

OpenMember == [NoMember EXCEPT !.made = TRUE]

member_is_closed(c) == mem[c].event \/ (mem[c].eof /\ mem[c].shut)

member_is_closing(c) == mem[c].closing

member_in_use(c) == mem[c].pending > 0 \/ mem[c].piped

\* The error Connection.execute and Connection.__aenter__ raise on entry.
MemberCheck(c) ==
    IF member_is_closed(c) THEN "ConnectionClosedError"
    ELSE IF member_is_closing(c) THEN "ConnectionClosingError"
    ELSE "none"

\* Connection.__aenter__ of a pooled connection
MemberEnterCheck(c) ==
    IF MemberCheck(c) # "none" THEN MemberCheck(c)
    ELSE IF mem[c].piped THEN "PipelineError"
    ELSE "none"

\* ConnectionPool.is_closed, is_closing and size
pool_is_closed == close_event

pool_is_closing == pool_closing

size == Len(idle) + Cardinality(loaned) + acquiring

\* ConnectionPool.max_size
max_size == IF subject = "ring" THEN RingMax ELSE IF subject = "crowd" THEN CrowdMax ELSE MaxSize

\* No check on entry.
PoolNeverClosedCheck == "none"

\* The error ConnectionPool.execute and ConnectionPool.__aenter__ raise on entry.
PoolClosedCheck ==
    IF pool_is_closed THEN "PoolClosedError"
    ELSE IF pool_is_closing THEN "PoolClosingError"
    ELSE "none"

\* A task of the pool's user: where it is, its latest call (the one it is in
\* unless it is idle), the connection it holds, connection_ctx, and what the
\* call raised.
PTask(p, o, c, x, e) == [pc |-> p, op |-> o, conn |-> c, ctx |-> x, raised |-> e]

\* The call o of task t ends, raising e ("none" when it returns).
\* Between calls a task is idle, or in the body of its innermost pool scope.
Rest(h) == IF h = <<>> THEN "idle" ELSE "body"

Ended(t, o, e) == [ptask EXCEPT ![t] = PTask(Rest(held[t]), o, 0, ptask[t].ctx, e)]

\* deque.rotate(1), deque.remove(c) and deque(maxlen=max_size).append(c)
RotateRight(ring) ==
    IF Len(ring) < 2 THEN ring
    ELSE <<ring[Len(ring)]>> \o SubSeq(ring, 1, Len(ring) - 1)

RECURSIVE Without(_, _)
Without(ring, c) ==
    IF ring = <<>> THEN <<>>
    ELSE IF Head(ring) = c THEN Tail(ring)
    ELSE <<Head(ring)>> \o Without(Tail(ring), c)

Appended(ring, c) ==
    IF Len(ring) >= max_size THEN Append(Tail(ring), c) ELSE Append(ring, c)

\* The for loop of _acquire_unused_connection from its i-th round: a stale head
\* is popped, any other head is taken and the ring rotated, and the loop runs
\* all its rounds, so the connection it yields is the one of its last round.
RECURSIVE ScanRing(_, _, _, _, _)
ScanRing(i, available, ring, conn, pruned) ==
    IF i = available THEN [ring |-> ring, conn |-> conn]
    ELSE LET c == Head(ring) IN
         IF member_is_closed(c) \/ member_is_closing(c)
         THEN IF i + pruned + 1 > available
              THEN [ring |-> Tail(ring), conn |-> 0]
              ELSE ScanRing(i + 1, available, Tail(ring), 0, pruned + 1)
         ELSE ScanRing(i + 1, available, RotateRight(ring), c, pruned)

\* A scan that prunes nothing and takes the ring's last connection whatever
\* its state: StaleNeverReturned must tell it from Scan.
ScanUnpruned == [ring |-> idle, conn |-> IF idle = <<>> THEN 0 ELSE idle[Len(idle)]]

Scan == ScanRing(0, Len(idle), idle, 0, 0)

\* The connections the for loop looks at from its i-th round on.
RECURSIVE ScanSeen(_, _, _, _)
ScanSeen(i, available, ring, pruned) ==
    IF i = available THEN {}
    ELSE LET c == Head(ring) IN
         IF member_is_closed(c) \/ member_is_closing(c)
         THEN IF i + pruned + 1 > available
              THEN {c}
              ELSE {c} \cup ScanSeen(i + 1, available, Tail(ring), pruned + 1)
         ELSE {c} \cup ScanSeen(i + 1, available, RotateRight(ring), pruned)

Inspected == ScanSeen(0, Len(idle), idle, 0)

Stale(c) == member_is_closed(c) \/ member_is_closing(c)

\* The loops of _close_all_connections over the connections cs: close() of each
\* until one raises.
RECURSIVE CloseEach(_, _)
CloseEach(cs, m) ==
    IF cs = <<>> THEN [mem |-> m, ok |-> TRUE]
    ELSE LET c == Head(cs) IN
         IF m[c].closing \/ m[c].event \/ (m[c].eof /\ m[c].shut)
         THEN [mem |-> m, ok |-> FALSE]
         ELSE CloseEach(Tail(cs), [m EXCEPT ![c].closing = TRUE, ![c].shut = TRUE])

\* The orders a set may be iterated in.
Orders(S) == {s \in [1..Cardinality(S) -> S] : \A x \in S : \E i \in DOMAIN s : s[i] = x}

connAll == <<connVars, futVars, wireVars, taskVars>>

\* The run is about a connection of its own, and no pool.
Standalone == subject = "conn" /\ UNCHANGED poolVars

InitPoolVars ==
    /\ pool_closing = FALSE
    /\ close_event = FALSE
    /\ idle = [i \in 1..MinSize |-> i]
    /\ loaned = {}
    /\ acquiring = 0
    /\ mem = [c \in Members |-> IF c <= MinSize THEN OpenMember ELSE NoMember]
    /\ lock = 0
    /\ waiters = <<>>
    /\ ptask = [t \in PoolTasks |-> PTask("idle", "none", 0, 0, "none")]
    /\ held = [t \in PoolTasks |-> <<>>]
    /\ closer = [pc |-> "none", targets |-> {}]

-----------------------------------------------------------------------------
\* The state after create_connection
InitConnection ==
    /\ closing = FALSE
    /\ cancelEvent = FALSE
    /\ writerClosing = FALSE
    /\ in_pipeline = FALSE
    /\ in_transaction = FALSE
    /\ pipeline_buffer = <<>>
    /\ resolvers = <<>>
    /\ watched_keys = <<>>
    /\ readerPc = "read"
    /\ fut = [i \in Ids |-> NoFuture]
    /\ locked = [i \in Ids |-> FALSE]
    /\ cmd = [i \in Ids |-> "none"]
    /\ nextId = 1
    /\ stream = <<>>
    /\ written = <<>>
    /\ srv = [multi |-> FALSE, queue |-> <<>>, watching |-> FALSE, aborted |-> 0,
              dirty |-> FALSE]
    /\ srvClosed = FALSE
    /\ pc = "run"
    /\ stk = <<>>
    /\ local = NoLocal
    /\ call = Called("init", "none", "none")

\* A run with a connection of its own.
Init ==
    /\ InitConnection
    /\ subject = "conn"
    /\ InitPoolVars

\* A run with a pool, after create_pool.
InitPool ==
    /\ InitConnection
    /\ subject = "pool"
    /\ InitPoolVars

\* A run with a pool of max_size RingMax, after create_pool with any min_size.
InitRing ==
    /\ InitConnection
    /\ subject = "ring"
    /\ pool_closing = FALSE
    /\ close_event = FALSE
    /\ \E n \in 1..RingMax :
         /\ idle = [i \in 1..n |-> i]
         /\ mem = [c \in RingMembers |-> IF c <= n THEN OpenMember ELSE NoMember]
    /\ loaned = {}
    /\ acquiring = 0
    /\ lock = 0
    /\ waiters = <<>>
    /\ ptask = [t \in PoolTasks |-> PTask("idle", "none", 0, 0, "none")]
    /\ held = [t \in PoolTasks |-> <<>>]
    /\ closer = [pc |-> "none", targets |-> {}]

\* A run with a pool of max_size CrowdMax, after create_pool.
InitCrowd ==
    /\ InitConnection
    /\ subject = "crowd"
    /\ pool_closing = FALSE
    /\ close_event = FALSE
    /\ idle = [i \in 1..MinSize |-> i]
    /\ mem = [c \in Members |-> IF c <= MinSize THEN OpenMember ELSE NoMember]
    /\ loaned = {}
    /\ acquiring = 0
    /\ lock = 0
    /\ waiters = <<>>
    /\ ptask = [t \in Crowd |-> PTask("idle", "none", 0, 0, "none")]
    /\ held = [t \in Crowd |-> <<>>]
    /\ closer = [pc |-> "none", targets |-> {}]

\* A run with a connection of its own or with a pool, after create_pool.
InitAny ==
    /\ InitConnection
    /\ subject \in {"conn", "pool"}
    /\ InitPoolVars

\* The server closes the stream.
ServerClose ==
    /\ Standalone
    /\ ~srvClosed
    /\ srvClosed' = TRUE
    /\ UNCHANGED <<stream, written, srv, connVars, futVars, taskVars>>

----------------------------------------------------------------------------
\* Connection.execute

\* An execute() that writes the command to the stream in pipeline mode as
\* well: BufferedUntilExit must tell it from ExecuteOn.
ExecuteOnWriting(ip, buf, rs) ==
    [buffer |-> IF ip THEN Append(buf, nextId) ELSE buf,
     wire |-> <<nextId>>,
     resolvers |-> Append(rs, Resolver(nextId, ip))]

\* execute(k) with the mode flag ip, the buffer buf and the queue rs as they
\* stand at the call: the command nextId is written or buffered and one
\* resolver is appended.
ExecuteOn(ip, buf, rs) ==
    [buffer |-> IF ip THEN Append(buf, nextId) ELSE buf,
     wire |-> IF ip THEN <<>> ELSE <<nextId>>,
     resolvers |-> Append(rs, Resolver(nextId, ip))]

UserCount == Cardinality({i \in Ids : cmd[i] \in UserKinds})

\* The body of execute(k) past the closed checks, called with the mode flag
\* ip, the buffer buf and the queue rs as they stand at the call.
Issue(k, ip, buf, rs) ==
    LET x == ExecuteOn(ip, buf, rs) IN
    /\ nextId <= MaxCmds
    /\ pipeline_buffer' = x.buffer
    /\ resolvers' = x.resolvers
    /\ stream' = stream \o x.wire
    /\ written' = written \o x.wire
    /\ cmd' = [cmd EXCEPT ![nextId] = k]
    /\ fut' = [fut EXCEPT ![nextId] = Pending]
    /\ locked' = [locked EXCEPT ![nextId] = ip]
    /\ nextId' = nextId + 1

\* An API call that raises e before it changes anything.
Raise(o, e) ==
    /\ call' = Called(o, "none", e)
    /\ UNCHANGED <<connVars, futVars, wireVars, pc, stk, local>>

\* execute(k): the closed checks, then the body.
ExecuteCall(k) ==
    /\ IF ClosedCheck # "none"
       THEN Raise("execute", ClosedCheck)
       ELSE /\ Issue(k, in_pipeline, pipeline_buffer, resolvers)
            /\ call' = Called("execute", "none", "none")
            /\ UNCHANGED <<closing, cancelEvent, writerClosing, in_pipeline,
                           in_transaction, watched_keys, readerPc, srv, srvClosed,
                           pc, stk, local>>

\* execute() called by any task, at any time.
Execute(k) ==
    /\ Standalone
    /\ UserCount < MaxUser
    /\ ExecuteCall(k)

\* The same where the connection may be closed under the callers.
ExecuteClose(k) ==
    /\ Standalone
    /\ UserCount < MaxUserClose
    /\ ExecuteCall(k)

\* PipelineFutureWrapper.__await__, and the await of a plain future that is
\* done (an await that blocks is not a step).
AwaitOutcome(f) ==
    IF locked[f] THEN "PipelineError"
    ELSE IF fut[f].st = "exception" THEN fut[f].val
    ELSE IF fut[f].st = "result" THEN "none"
    ELSE IF fut[f].st = "cancelled" THEN "CancelledError"
    ELSE "blocks"

Await(f) ==
    /\ Standalone
    /\ pc = "run"
    /\ cmd[f] \in UserKinds
    /\ AwaitOutcome(f) # "blocks"
    /\ Raise("await", AwaitOutcome(f))

----------------------------------------------------------------------------
\* Connection._read_data

\* The choices the server has in answering command c.
ShapesFor(c) == IF cmd[c] \in UserKinds /\ ~srv.multi THEN Shapes ELSE {"OK"}

ExecShapesFor(c) ==
    IF cmd[c] = "EXEC" /\ srv.multi
    THEN [1..Len(srv.queue) -> Shapes]
    ELSE {<<>>}

ConflictsFor(c) ==
    IF cmd[c] = "EXEC" /\ srv.multi /\ srv.watching THEN BOOLEAN ELSE {FALSE}

\* The reader's handling of one parsed top-level reply r.
Handle(r) ==
    IF in_transaction /\ r.kind = "QUEUED"
    THEN UNCHANGED <<resolvers, fut>>
    ELSE IF in_transaction /\ r.kind = "nil"
    THEN /\ fut' = FailAll(resolvers, fut, "WatchError").fut
         /\ resolvers' = FailAll(resolvers, fut, "WatchError").resolvers
    ELSE LET d == Dispatch(ParsedResults(r), resolvers, fut) IN
         /\ resolvers' = d.resolvers
         /\ fut' = d.fut

\* One pass of the inner while loop: the server answers the next command on
\* the stream and the reader handles that one parsed top-level reply.
ReadReply ==
    /\ Standalone
    /\ readerPc = "read"
    /\ stream # <<>>
    /\ ~srvClosed
    /\ ~(srv.dirty /\ cmd[Head(stream)] = "EXEC")
    /\ LET c == Head(stream) IN
       \E sh \in ShapesFor(c), shs \in ExecShapesFor(c), conflict \in ConflictsFor(c) :
         /\ stream' = Tail(stream)
         /\ srv' = ServerAfter(c, conflict)
         /\ Handle(ServerReply(c, sh, shs, conflict))
    /\ UNCHANGED <<closing, cancelEvent, writerClosing, in_pipeline, in_transaction,
                   pipeline_buffer, watched_keys, readerPc, locked, cmd, nextId,
                   written, srvClosed, taskVars>>

\* The same pass where the server refuses a command: inside MULTI it answers
\* a caller's command with an error instead of QUEUED, and the EXEC of such a
\* transaction with an error (EXECABORT), the transaction discarded.
ReadRejection ==
    /\ Standalone
    /\ readerPc = "read"
    /\ stream # <<>>
    /\ ~srvClosed
    /\ srv.multi
    /\ LET c == Head(stream) IN
       /\ \/ /\ cmd[c] \in UserKinds
             /\ srv' = [srv EXCEPT !.dirty = TRUE]
          \/ /\ cmd[c] = "EXEC"
             /\ srv.dirty
             /\ srv' = ServerAfter(c, FALSE)
       /\ stream' = Tail(stream)
       /\ Handle(Reply(c, "err", <<>>))
    /\ UNCHANGED <<closing, cancelEvent, writerClosing, in_pipeline, in_transaction,
                   pipeline_buffer, watched_keys, readerPc, locked, cmd, nextId,
                   written, srvClosed, taskVars>>

----------------------------------------------------------------------------
\* Connection.transaction

\* The finally clause: the scope is left with e raised ("none": normally).
TxnFinally(d, e) ==
    /\ in_transaction' = FALSE
    /\ watched_keys' = <<>>
    /\ stk' = Pop
    /\ pc' = "run"
    /\ local' = NoLocal
    /\ call' = Called("exit_txn", d, e)

\* async with conn.transaction(*keys): up to the yield, or to the await of WATCH.
EnterTransaction(keys) ==
    /\ Standalone
    /\ pc = "run"
    /\ IF ClosedCheck # "none" THEN Raise("enter_txn", ClosedCheck)
       ELSE IF in_transaction THEN Raise("enter_txn", "TransactionError")
       ELSE /\ in_transaction' = TRUE
            /\ watched_keys' = keys
            /\ UNCHANGED <<closing, cancelEvent, writerClosing, in_pipeline, readerPc,
                           srv, srvClosed>>
            /\ IF keys = <<>>
               THEN /\ stk' = Append(stk, "txn")
                    /\ call' = Called("enter_txn", "none", "none")
                    /\ UNCHANGED <<pipeline_buffer, resolvers, futVars, stream, written,
                                   pc, local>>
               ELSE /\ Issue("WATCH", in_pipeline, pipeline_buffer, resolvers)
                    /\ stk' = stk
                    /\ IF in_pipeline
                       THEN \* the wrapper refuses the await, before the try
                            /\ call' = Called("enter_txn", "none", "PipelineError")
                            /\ UNCHANGED <<pc, local>>
                       ELSE /\ pc' = "watch_wait"
                            /\ local' = Frame(<<>>, "none", nextId, <<>>, FALSE, <<>>)
                            /\ call' = Called("enter_txn", "none", "pending")

\* The await of WATCH ends: the scope body starts, or the error leaves
\* transaction() before its try.
WatchDone ==
    /\ Standalone
    /\ pc = "watch_wait"
    /\ IsDone(local.wait)
    /\ pc' = "run"
    /\ local' = NoLocal
    /\ IF fut[local.wait].st = "result"
       THEN /\ stk' = Append(stk, "txn")
            /\ call' = Called("enter_txn", "none", "none")
       ELSE /\ stk' = stk
            /\ call' = Called("enter_txn", "none", fut[local.wait].val)
    /\ UNCHANGED <<connVars, futVars, wireVars>>

\* The scope body ends, normally or by raising (d = "error"): the except
\* clause issues UNWATCH when keys were given, then the finally clause runs.
ExitTransaction(d) ==
    /\ Standalone
    /\ pc = "run"
    /\ Top = "txn"
    /\ UNCHANGED <<closing, cancelEvent, writerClosing, in_pipeline, readerPc, srv,
                   srvClosed>>
    /\ IF d = "normal" \/ watched_keys = <<>>
       THEN /\ TxnFinally(d, IF d = "normal" THEN "none" ELSE "Error")
            /\ UNCHANGED <<pipeline_buffer, resolvers, futVars, stream, written>>
       ELSE IF ClosedCheck # "none"
       THEN /\ TxnFinally(d, ClosedCheck)
            /\ UNCHANGED <<pipeline_buffer, resolvers, futVars, stream, written>>
       ELSE /\ Issue("UNWATCH", in_pipeline, pipeline_buffer, resolvers)
            /\ IF in_pipeline
               THEN TxnFinally(d, "PipelineError")
               ELSE /\ pc' = "unwatch_txn"
                    /\ local' = Frame(<<>>, d, nextId, <<>>, FALSE, <<nextId>>)
                    /\ call' = Called("exit_txn", d, "pending")
                    /\ UNCHANGED <<in_transaction, watched_keys, stk>>

\* The await of UNWATCH in the except clause ends; the error is re-raised.
UnwatchTxnDone ==
    /\ Standalone
    /\ pc = "unwatch_txn"
    /\ IsDone(local.wait)
    /\ TxnFinally(local.disp,
                  IF fut[local.wait].st = "exception" THEN fut[local.wait].val
                  ELSE "Error")
    /\ UNCHANGED <<closing, cancelEvent, writerClosing, in_pipeline, pipeline_buffer,
                   resolvers, readerPc, futVars, wireVars>>

----------------------------------------------------------------------------
\* Connection.__aenter__ and __aexit__

\* An __aenter__ without the check of _in_pipeline, which starts a new buffer
\* over the open scope's: NestedEntryRefused must tell it from EnterPipeline.
EnterPipelineUnchecked ==
    /\ Standalone
    /\ pc = "run"
    /\ IF ClosedCheck # "none" THEN Raise("enter_pipe", ClosedCheck)
       ELSE /\ in_pipeline' = TRUE
            /\ pipeline_buffer' = <<>>
            /\ stk' = Append(stk, "pipe")
            /\ call' = Called("enter_pipe", "none", "none")
            /\ UNCHANGED <<closing, cancelEvent, writerClosing, in_transaction,
                           resolvers, watched_keys, readerPc, futVars, wireVars, pc,
                           local>>

EnterPipeline ==
    /\ Standalone
    /\ pc = "run"
    /\ IF ClosedCheck # "none" THEN Raise("enter_pipe", ClosedCheck)
       ELSE IF in_pipeline THEN Raise("enter_pipe", "PipelineError")
       ELSE /\ in_pipeline' = TRUE
            /\ pipeline_buffer' = <<>>
            /\ stk' = Append(stk, "pipe")
            /\ call' = Called("enter_pipe", "none", "none")
            /\ UNCHANGED <<closing, cancelEvent, writerClosing, in_transaction,
                           resolvers, watched_keys, readerPc, futVars, wireVars, pc,
                           local>>

ExcName(d) == IF d = "abort" THEN "AbortTransaction" ELSE "Error"

FutIds(rs) == [i \in 1..Len(rs) |-> rs[i].fut]

AllWrapped(rs) == \A i \in 1..Len(rs) : rs[i].wrapped

\* The loop calling clear_in_progress() on each gathered resolver's future: a
\* plain future has no such method and ends it with AttributeError.
RECURSIVE ClearInProgress(_, _)
ClearInProgress(rs, lk) ==
    IF rs = <<>> \/ ~Head(rs).wrapped THEN lk
    ELSE ClearInProgress(Tail(rs), [lk EXCEPT ![Head(rs).fut] = FALSE])

\* __aexit__ returns or raises e.
PipeExited(d, e) ==
    /\ stk' = Pop
    /\ pc' = "run"
    /\ local' = NoLocal
    /\ call' = Called("exit_pipe", d, e)

\* What __aexit__ hands back for disposition d when nothing else went wrong:
\* True suppresses the abort, None lets an error through.
Outcome(d) == IF d = "error" THEN "Error" ELSE "none"

\* __aexit__ with an empty buffer.
ExitEmpty(d) ==
    /\ in_pipeline' = FALSE
    /\ IF watched_keys = <<>>
       THEN /\ PipeExited(d, Outcome(d))
            /\ UNCHANGED <<pipeline_buffer, resolvers, futVars, stream, written>>
       ELSE IF ClosedCheck # "none"
       THEN /\ PipeExited(d, ClosedCheck)
            /\ UNCHANGED <<pipeline_buffer, resolvers, futVars, stream, written>>
       ELSE /\ Issue("UNWATCH", FALSE, pipeline_buffer, resolvers)
            /\ pc' = "unwatch_pipe"
            /\ local' = Frame(<<>>, d, nextId, <<>>, in_transaction, <<nextId>>)
            /\ call' = Called("exit_pipe", d, "pending")
            /\ UNCHANGED stk

\* __aexit__ with buffered commands, up to the gather.
ExitBuffered(d) ==
    LET failing == d \in {"abort", "error"}
        gathered == resolvers
        failed == FailAll(resolvers, fut, ExcName(d))
        fut1 == IF failing THEN failed.fut ELSE fut
        q1 == IF failing THEN <<>> ELSE resolvers
        multi == in_transaction /\ d # "abort"
        m == nextId
        e == nextId + 1
        \* MULTI + buffer + EXEC; an EXEC that is discarded unwritten (the scope
        \* is failing) is given no identity
        buf2 == IF ~multi THEN pipeline_buffer
                ELSE IF failing THEN <<m>> \o pipeline_buffer
                ELSE <<m>> \o pipeline_buffer \o <<e>>
        lk2 == IF multi THEN [locked EXCEPT ![m] = TRUE] ELSE locked
    IN
    IF failing /\ ~failed.ok
    THEN \* set_exception raises out of __aexit__, the flags not yet reset
         /\ resolvers' = failed.resolvers
         /\ fut' = failed.fut
         /\ PipeExited(d, "InvalidStateError")
         /\ UNCHANGED <<in_pipeline, pipeline_buffer, locked, cmd, nextId, stream, written>>
    ELSE
        /\ multi => nextId + (IF failing THEN 0 ELSE 1) <= MaxCmds
        /\ resolvers' = IF multi THEN <<Resolver(m, TRUE)>> \o q1 ELSE q1
        /\ fut' = IF multi THEN [fut1 EXCEPT ![m] = Pending] ELSE fut1
        /\ cmd' = IF ~multi THEN cmd
                  ELSE IF failing THEN [cmd EXCEPT ![m] = "MULTI"]
                  ELSE [cmd EXCEPT ![m] = "MULTI", ![e] = "EXEC"]
        /\ nextId' = IF ~multi THEN nextId ELSE IF failing THEN nextId + 1 ELSE nextId + 2
        /\ IF ~failing /\ writerClosing
           THEN \* drain() raises on the closed transport, before the flags are reset
                /\ pipeline_buffer' = buf2
                /\ in_pipeline' = in_pipeline
                /\ locked' = lk2
                /\ UNCHANGED <<stream, written>>
                /\ PipeExited(d, "ConnectionResetError")
           ELSE /\ stream' = IF failing THEN stream ELSE stream \o buf2
                /\ written' = IF failing THEN written ELSE written \o buf2
                /\ in_pipeline' = FALSE
                /\ pipeline_buffer' = <<>>
                /\ locked' = ClearInProgress(gathered, lk2)
                /\ IF AllWrapped(gathered)
                   THEN /\ pc' = "gather"
                        /\ local' = Frame(FutIds(gathered), d, 0, pipeline_buffer,
                                          in_transaction, IF failing THEN <<>> ELSE buf2)
                        /\ call' = Called("exit_pipe", d, "pending")
                        /\ UNCHANGED stk
                   ELSE PipeExited(d, "AttributeError")

\* The body of a pipeline scope ends normally, by AbortTransaction or by
\* another exception.
ExitPipeline(d) ==
    /\ Standalone
    /\ pc = "run"
    /\ Top = "pipe"
    /\ IF pipeline_buffer = <<>> THEN ExitEmpty(d) ELSE ExitBuffered(d)
    /\ UNCHANGED <<closing, cancelEvent, writerClosing, in_transaction, watched_keys,
                   readerPc, srv, srvClosed>>

\* The check after the gather, over the gathered futures in order: exception()
\* of a cancelled future raises CancelledError, and a WatchError found ends
\* the search.
RECURSIVE GatherCheck(_)
GatherCheck(fs) ==
    IF fs = <<>> THEN "none"
    ELSE IF fut[Head(fs)].st = "cancelled" THEN "CancelledError"
    ELSE IF fut[Head(fs)] = Failed("WatchError") THEN "WatchError"
    ELSE GatherCheck(Tail(fs))

\* The gather ends: every gathered future is done.
GatherDone ==
    /\ Standalone
    /\ pc = "gather"
    /\ \A i \in 1..Len(local.resolvers) : IsDone(local.resolvers[i])
    /\ UNCHANGED <<closing, cancelEvent, writerClosing, in_pipeline, in_transaction,
                   watched_keys, readerPc, srv, srvClosed>>
    /\ IF GatherCheck(local.resolvers) # "none"
       THEN /\ PipeExited(local.disp, GatherCheck(local.resolvers))
            /\ UNCHANGED <<pipeline_buffer, resolvers, futVars, stream, written>>
       ELSE IF local.disp # "abort"
       THEN /\ PipeExited(local.disp, Outcome(local.disp))
            /\ UNCHANGED <<pipeline_buffer, resolvers, futVars, stream, written>>
       ELSE IF ClosedCheck # "none"
       THEN /\ PipeExited(local.disp, ClosedCheck)
            /\ UNCHANGED <<pipeline_buffer, resolvers, futVars, stream, written>>
       ELSE /\ Issue("UNWATCH", in_pipeline, pipeline_buffer, resolvers)
            /\ pc' = "unwatch_pipe"
            /\ local' = [local EXCEPT !.wait = nextId, !.wrote = Append(@, nextId)]
            /\ call' = Called("exit_pipe", local.disp, "pending")
            /\ UNCHANGED stk

\* wait_for gives up on the gather once no reply can arrive any more: the
\* gathered futures still pending are cancelled and __aexit__ raises
\* TimeoutError.
GatherTimeout ==
    /\ Standalone
    /\ pc = "gather"
    /\ \E i \in 1..Len(local.resolvers) : ~IsDone(local.resolvers[i])
    /\ stream = <<>> \/ readerPc # "read" \/ srvClosed
    /\ fut' = [f \in Ids |-> IF f \in SeqToSet(local.resolvers) /\ fut[f].st = "pending"
                              THEN Cancelled ELSE fut[f]]
    /\ PipeExited(local.disp, "TimeoutError")
    /\ UNCHANGED <<connVars, locked, cmd, nextId, wireVars>>

\* A caller cancels a pending future that execute() returned.
Cancel(f) ==
    /\ Standalone
    /\ Cardinality({g \in Ids : fut[g].st = "cancelled"}) < MaxCancels
    /\ cmd[f] \in UserKinds
    /\ fut[f].st = "pending"
    /\ fut' = [fut EXCEPT ![f] = Cancelled]
    /\ UNCHANGED <<connVars, locked, cmd, nextId, wireVars, taskVars>>

\* The await of UNWATCH in __aexit__ ends.
UnwatchPipeDone ==
    /\ Standalone
    /\ pc = "unwatch_pipe"
    /\ IsDone(local.wait)
    /\ PipeExited(local.disp,
                  IF fut[local.wait].st = "exception" THEN fut[local.wait].val
                  ELSE Outcome(local.disp))
    /\ UNCHANGED <<connVars, futVars, wireVars>>

----------------------------------------------------------------------------
\* Connection.close, wait_closed and the end of the reader task

\* close() past its checks: the writer is closed and the reader task cancelled.
Closing ==
    /\ closing' = TRUE
    /\ writerClosing' = TRUE
    /\ readerPc' = IF readerPc = "done" THEN "done" ELSE "cancelling"

Close ==
    /\ Standalone
    /\ IF closing THEN Raise("close", "ConnectionClosingError")
       ELSE IF is_closed THEN Raise("close", "ConnectionClosedError")
       ELSE /\ Closing
            /\ call' = Called("close", "none", "none")
            /\ UNCHANGED <<cancelEvent, in_pipeline, in_transaction, pipeline_buffer,
                           resolvers, watched_keys, futVars, wireVars, pc, stk, local>>

\* wait_closed(): it returns once the writer is closed and the reader task done.
WaitClosed ==
    /\ Standalone
    /\ IF ~closing THEN Raise("wait_closed", "RuntimeError")
       ELSE /\ cancelEvent
            /\ closing' = FALSE
            /\ call' = Called("wait_closed", "none", "none")
            /\ UNCHANGED <<cancelEvent, writerClosing, in_pipeline, in_transaction,
                           pipeline_buffer, resolvers, watched_keys, readerPc, futVars,
                           wireVars, pc, stk, local>>

\* The reader's loop ends at EOF: it calls close(), which cancels the task it
\* runs in, and the await in wait_closed() is where the cancellation lands.  A
\* close() that raises ends the task at once.
ReaderEOF ==
    /\ Standalone
    /\ readerPc = "read"
    /\ at_eof
    /\ IF closing \/ is_closed
       THEN /\ readerPc' = "done"
            /\ cancelEvent' = TRUE
            /\ UNCHANGED <<closing, writerClosing>>
       ELSE /\ Closing
            /\ UNCHANGED cancelEvent
    /\ UNCHANGED <<in_pipeline, in_transaction, pipeline_buffer, resolvers,
                   watched_keys, futVars, wireVars, taskVars>>

\* The cancelled reader task ends; _set_read_state sets the event.
ReaderCancelled ==
    /\ Standalone
    /\ readerPc = "cancelling"
    /\ readerPc' = "done"
    /\ cancelEvent' = TRUE
    /\ UNCHANGED <<closing, writerClosing, in_pipeline, in_transaction, pipeline_buffer,
                   resolvers, watched_keys, futVars, wireVars, taskVars>>

-----------------------------------------------------------------------------
\* ConnectionPool: acquiring and releasing connections

poolFlags == <<subject, pool_closing, close_event, closer>>

\* _acquire_unused_connection hands connection c to task t, the pool's ring
\* being ring and its connections m, and the caller goes on without a pause:
\* execute() calls the connection's execute and awaits the reply, __aenter__
\* sets connection_ctx, adds the connection to _in_use and enters its scope.
Acquired(t, o, c, ring, m) ==
    /\ lock' = 0
    /\ idle' = IF o = "enter" THEN Without(ring, c) ELSE ring
    /\ IF o = "execute"
       THEN /\ loaned' = loaned
            /\ IF MemberCheck(c) # "none"
               THEN /\ mem' = m
                    /\ ptask' = Ended(t, o, MemberCheck(c))
               ELSE /\ mem' = [m EXCEPT ![c].pending = @ + 1]
                    /\ ptask' = [ptask EXCEPT ![t] = PTask("reply", o, c, @.ctx, "pending")]
            /\ UNCHANGED held
       ELSE /\ loaned' = loaned \cup {c}
            /\ IF MemberEnterCheck(c) # "none"
               THEN /\ mem' = m
                    /\ ptask' = [ptask EXCEPT ![t] =
                                   PTask(Rest(held[t]), o, 0, c, MemberEnterCheck(c))]
                    /\ UNCHANGED held
               ELSE /\ mem' = [m EXCEPT ![c].piped = TRUE]
                    /\ ptask' = [ptask EXCEPT ![t] = PTask("body", o, 0, c, "none")]
                    /\ held' = [held EXCEPT ![t] = Append(@, c)]

\* One round of the loop of _acquire_unused_connection, the lock taken: the
\* ring is scanned, and the task opens a connection, waits on the condition or
\* leaves with the connection found.
Acquire(t, o) ==
    LET s == Scan
        sizeNow == Len(s.ring) + Cardinality(loaned) + acquiring
    IN IF s.conn = 0 /\ sizeNow < max_size
       THEN /\ \E c \in DOMAIN mem : ~mem[c].made
            /\ idle' = s.ring
            /\ acquiring' = acquiring + 1
            /\ lock' = t
            /\ ptask' = [ptask EXCEPT ![t] = PTask("connecting", o, 0, @.ctx, "pending")]
            /\ UNCHANGED <<loaned, mem, waiters, held>>
       ELSE IF s.conn = 0
       THEN /\ idle' = s.ring
            /\ lock' = 0
            /\ waiters' = Append(waiters, t)
            /\ ptask' = [ptask EXCEPT ![t] = PTask("parked", o, 0, @.ctx, "pending")]
            /\ UNCHANGED <<loaned, mem, acquiring, held>>
       ELSE /\ Acquired(t, o, s.conn, s.ring, mem)
            /\ UNCHANGED <<acquiring, waiters>>

\* _release_connection without its notify(): SaturatedParks must tell it from
\* Release.
ReleaseSilently(t, c, h) ==
    /\ loaned' = loaned \ {c}
    /\ idle' = IF ~member_is_closed(c) /\ ~member_is_closing(c) THEN Appended(idle, c) ELSE idle
    /\ lock' = 0
    /\ held' = [held EXCEPT ![t] = h]
    /\ ptask' = [ptask EXCEPT ![t] = PTask(Rest(h), "exit", 0, @.ctx, "none")]
    /\ UNCHANGED <<acquiring, waiters>>

\* _release_connection of connection c by task t, the lock taken; h is the
\* task's open scopes afterwards.  notify() wakes the first parked task.
Release(t, c, h) ==
    /\ loaned' = loaned \ {c}
    /\ idle' = IF ~member_is_closed(c) /\ ~member_is_closing(c) THEN Appended(idle, c) ELSE idle
    /\ lock' = 0
    /\ waiters' = IF waiters = <<>> THEN waiters ELSE Tail(waiters)
    /\ held' = [held EXCEPT ![t] = h]
    /\ ptask' = [u \in DOMAIN ptask |->
                   IF u = t THEN PTask(Rest(h), "exit", 0, ptask[t].ctx, "none")
                   ELSE IF waiters # <<>> /\ u = Head(waiters)
                        THEN [ptask[u] EXCEPT !.pc = "lock"]
                        ELSE ptask[u]]
    /\ UNCHANGED acquiring

\* An acquisition needs the condition's lock: it goes on at once when the
\* lock is free and waits for it otherwise.
Locking(t, o, c) ==
    IF lock = 0
    THEN Acquire(t, o)
    ELSE /\ ptask' = [ptask EXCEPT ![t] = PTask("lock", o, c, @.ctx, "pending")]
         /\ UNCHANGED <<idle, loaned, mem, lock, acquiring, waiters, held>>

\* ConnectionPool.execute
PoolExecute(t) ==
    /\ subject # "conn"
    /\ ptask[t].pc = "idle"
    /\ IF PoolClosedCheck # "none"
       THEN /\ ptask' = Ended(t, "execute", PoolClosedCheck)
            /\ UNCHANGED <<idle, loaned, mem, lock, acquiring, waiters, held>>
       ELSE Locking(t, "execute", 0)
    /\ UNCHANGED <<poolFlags, connAll>>

\* ConnectionPool.__aenter__, by an idle task or in the body of a pool scope
PoolEnter(t) ==
    /\ subject # "conn"
    /\ ptask[t].pc \in {"idle", "body"}
    /\ Len(held[t]) < MaxDepth
    /\ IF PoolClosedCheck # "none"
       THEN /\ ptask' = Ended(t, "enter", PoolClosedCheck)
            /\ UNCHANGED <<idle, loaned, mem, lock, acquiring, waiters, held>>
       ELSE Locking(t, "enter", 0)
    /\ UNCHANGED <<poolFlags, connAll>>

\* A task that waited for the lock, or that notify() woke, takes it.
LockTaken(t) ==
    /\ ptask[t].pc = "lock"
    /\ lock = 0
    /\ IF ptask[t].op = "release"
       THEN Release(t, ptask[t].conn, held[t]) /\ UNCHANGED mem
       ELSE Acquire(t, ptask[t].op)
    /\ UNCHANGED <<poolFlags, connAll>>

\* create_connection returns in _add_additional_connection: the connection is
\* appended to the pool and handed to the caller.
Connected(t) ==
    /\ ptask[t].pc = "connecting"
    /\ LET c == CHOOSE x \in DOMAIN mem : ~mem[x].made /\ \A y \in DOMAIN mem : y < x => mem[y].made
       IN Acquired(t, ptask[t].op, c, Appended(idle, c), [mem EXCEPT ![c] = OpenMember])
    /\ acquiring' = acquiring - 1
    /\ UNCHANGED <<waiters, poolFlags, connAll>>

\* The reply to the command of execute() arrives and its future resolves.
PoolReply(t) ==
    /\ ptask[t].pc = "reply"
    /\ LET c == ptask[t].conn IN
       /\ ~mem[c].shut /\ ~mem[c].eof /\ ~mem[c].piped
       /\ mem' = [mem EXCEPT ![c].pending = @ - 1]
    /\ ptask' = Ended(t, "execute", "none")
    /\ UNCHANGED <<idle, loaned, lock, acquiring, waiters, held, poolFlags, connAll>>

\* ConnectionPool.__aexit__: the scope of the connection in connection_ctx is
\* left and the connection released.  The connection's __aexit__ returns at
\* once when nothing is buffered; it writes what is buffered and awaits the
\* replies otherwise, and raises ConnectionResetError out of the pool's
\* __aexit__, before the release, when its writer is closed.
PoolExit(t, buffered) ==
    LET c == ptask[t].ctx
        h == SubSeq(held[t], 1, Len(held[t]) - 1)
    IN
    /\ ptask[t].pc = "body"
    /\ buffered => mem[c].piped
    /\ IF buffered /\ mem[c].shut
       THEN /\ ptask' = [ptask EXCEPT ![t] = PTask(Rest(h), "exit", 0, c, "ConnectionResetError")]
            /\ held' = [held EXCEPT ![t] = h]
            /\ UNCHANGED <<idle, loaned, mem, lock, acquiring, waiters>>
       ELSE /\ mem' = [mem EXCEPT ![c].piped = FALSE]
            /\ IF buffered \/ lock # 0
               THEN /\ ptask' = [ptask EXCEPT ![t] = PTask("lock", "release", c, c, "pending")]
                    /\ held' = [held EXCEPT ![t] = h]
                    /\ UNCHANGED <<idle, loaned, lock, acquiring, waiters>>
               ELSE Release(t, c, h)
    /\ UNCHANGED <<poolFlags, connAll>>

\* Redical.transaction on a pool-backed client: ConnectionPool defines no
\* transaction(), so the call reaches RedicalResource.transaction, whose body
\* yields the pool itself; nothing is acquired and nothing is sent.
PoolTransaction(t) ==
    /\ subject # "conn"
    /\ ptask[t].pc = "idle"
    /\ ptask' = Ended(t, "transaction", "none")
    /\ UNCHANGED <<idle, loaned, mem, lock, acquiring, waiters, held, poolFlags, connAll>>

\* The server closes the stream of a pooled connection: its reader calls
\* close(), or ends at once when the connection is closing already.
MemberEOF(c) ==
    /\ subject # "conn"
    /\ mem[c].made /\ ~mem[c].eof
    /\ mem' = [mem EXCEPT ![c] = IF @.closing \/ @.event
                                  THEN [@ EXCEPT !.eof = TRUE, !.event = TRUE]
                                  ELSE [@ EXCEPT !.eof = TRUE, !.closing = TRUE, !.shut = TRUE]]
    /\ UNCHANGED <<idle, loaned, lock, acquiring, waiters, ptask, held, poolFlags, connAll>>

\* The cancelled reader task of a pooled connection ends.
MemberCancelled(c) ==
    /\ mem[c].shut /\ ~mem[c].event
    /\ mem' = [mem EXCEPT ![c].event = TRUE]
    /\ UNCHANGED <<idle, loaned, lock, acquiring, waiters, ptask, held, poolFlags, connAll>>

-----------------------------------------------------------------------------
\* ConnectionPool.close and wait_closed

\* close(): the task running _close_all_connections is created.
PoolClose(t) ==
    /\ subject # "conn"
    /\ ptask[t].pc = "idle"
    /\ IF pool_closing
       THEN /\ ptask' = Ended(t, "close", "PoolClosingError")
            /\ UNCHANGED <<pool_closing, closer>>
       ELSE IF pool_is_closed
       THEN /\ ptask' = Ended(t, "close", "PoolClosedError")
            /\ UNCHANGED <<pool_closing, closer>>
       ELSE /\ pool_closing' = TRUE
            /\ closer' = [pc |-> "lock", targets |-> {}]
            /\ ptask' = Ended(t, "close", "none")
    /\ UNCHANGED <<subject, close_event, idle, loaned, acquiring, mem, lock, waiters, held,
                   connAll>>

\* _close_all_connections takes the lock and calls close() on the idle and
\* the loaned connections; a close() that raises ends the task, and the task's
\* done callback sets the close event however the task ended.
CloseAllConnections ==
    /\ closer.pc = "lock"
    /\ lock = 0
    /\ \E ord \in Orders(loaned) :
         LET r == CloseEach(idle \o ord, mem) IN
         /\ mem' = r.mem
         /\ IF r.ok
            THEN /\ closer' = [pc |-> "gather", targets |-> SeqToSet(idle) \cup loaned]
                 /\ lock' = CloserId
                 /\ UNCHANGED close_event
            ELSE /\ closer' = [pc |-> "done", targets |-> {}]
                 /\ close_event' = TRUE
                 /\ UNCHANGED lock
    /\ UNCHANGED <<subject, pool_closing, idle, loaned, acquiring, waiters, ptask, held,
                   connAll>>

\* The gathered wait_closed() calls return, each resetting its connection's
\* _closing; the lock is released and the done callback sets the close event.
CloseAllGathered ==
    /\ closer.pc = "gather"
    /\ \A c \in closer.targets : mem[c].event
    /\ mem' = [c \in DOMAIN mem |-> IF c \in closer.targets
                                  THEN [mem[c] EXCEPT !.closing = FALSE] ELSE mem[c]]
    /\ closer' = [pc |-> "done", targets |-> {}]
    /\ lock' = 0
    /\ close_event' = TRUE
    /\ UNCHANGED <<subject, pool_closing, idle, loaned, acquiring, waiters, ptask, held,
                   connAll>>

\* wait_closed(): it returns once the close event is set.
PoolWaitClosed(t) ==
    /\ subject # "conn"
    /\ ptask[t].pc = "idle"
    /\ IF ~pool_closing
       THEN /\ ptask' = Ended(t, "wait_closed", "RuntimeError")
            /\ UNCHANGED pool_closing
       ELSE IF close_event
       THEN /\ pool_closing' = FALSE
            /\ ptask' = Ended(t, "wait_closed", "none")
       ELSE /\ ptask' = [ptask EXCEPT ![t] = PTask("wait_closed", "wait_closed", 0, @.ctx, "pending")]
            /\ UNCHANGED pool_closing
    /\ UNCHANGED <<subject, close_event, closer, idle, loaned, acquiring, mem, lock, waiters,
                   held, connAll>>

\* The same, _closing left set.
PoolWaitedStillClosing(t) ==
    /\ ptask[t].pc = "wait_closed"
    /\ close_event
    /\ ptask' = Ended(t, "wait_closed", "none")
    /\ UNCHANGED <<subject, pool_closing, close_event, closer, idle, loaned, acquiring, mem,
                   lock, waiters, held, connAll>>

PoolWaited(t) ==
    /\ ptask[t].pc = "wait_closed"
    /\ close_event
    /\ pool_closing' = FALSE
    /\ ptask' = Ended(t, "wait_closed", "none")
    /\ UNCHANGED <<subject, close_event, closer, idle, loaned, acquiring, mem, lock, waiters,
                   held, connAll>>

-----------------------------------------------------------------------------
\* The connection stays open: callers, the scopes and the reader.
Next ==
    \/ \E k \in UserKinds : Execute(k)
    \/ \E f \in Ids : Await(f)
    \/ \E keys \in {<<>>, <<"k">>} : EnterTransaction(keys)
    \/ WatchDone
    \/ \E d \in {"normal", "error"} : ExitTransaction(d)
    \/ UnwatchTxnDone
    \/ EnterPipeline
    \/ \E d \in {"normal", "abort", "error"} : ExitPipeline(d)
    \/ GatherDone
    \/ GatherTimeout
    \/ UnwatchPipeDone
    \/ ReadReply

\* The same with a server that may refuse commands inside MULTI.
NextReject ==
    \/ \E k \in UserKinds : Execute(k)
    \/ \E f \in Ids : Await(f)
    \/ \E keys \in {<<>>, <<"k">>} : EnterTransaction(keys)
    \/ WatchDone
    \/ \E d \in {"normal", "error"} : ExitTransaction(d)
    \/ UnwatchTxnDone
    \/ EnterPipeline
    \/ \E d \in {"normal", "abort", "error"} : ExitPipeline(d)
    \/ GatherDone
    \/ GatherTimeout
    \/ UnwatchPipeDone
    \/ ReadReply
    \/ ReadRejection

\* The same with close(), wait_closed() and the stream's EOF.
NextClose ==
    \/ \E k \in UserKinds : ExecuteClose(k)
    \/ \E f \in Ids : Await(f)
    \/ \E keys \in {<<>>, <<"k">>} : EnterTransaction(keys)
    \/ WatchDone
    \/ \E d \in {"normal", "error"} : ExitTransaction(d)
    \/ UnwatchTxnDone
    \/ EnterPipeline
    \/ \E d \in {"normal", "abort", "error"} : ExitPipeline(d)
    \/ GatherDone
    \/ GatherTimeout
    \/ UnwatchPipeDone
    \/ ReadReply
    \/ ServerClose
    \/ Close
    \/ WaitClosed
    \/ ReaderEOF
    \/ ReaderCancelled

Spec == Init /\ [][Next]_vars

SpecReject == Init /\ [][NextReject]_vars

SpecClose == Init /\ [][NextClose]_vars

\* The open connection, with callers that cancel futures.
NextCancel ==
    \/ \E k \in UserKinds : Execute(k)
    \/ \E f \in Ids : Await(f)
    \/ \E f \in Ids : Cancel(f)
    \/ \E keys \in {<<>>, <<"k">>} : EnterTransaction(keys)
    \/ WatchDone
    \/ \E d \in {"normal", "error"} : ExitTransaction(d)
    \/ UnwatchTxnDone
    \/ EnterPipeline
    \/ \E d \in {"normal", "abort", "error"} : ExitPipeline(d)
    \/ GatherDone
    \/ GatherTimeout
    \/ UnwatchPipeDone
    \/ ReadReply

SpecCancel == Init /\ [][NextCancel]_vars

\* A connection of its own with close(), or a pool and the tasks using it.
NextAny ==
    \/ \E k \in UserKinds : ExecuteClose(k)
    \/ \E f \in Ids : Await(f)
    \/ \E keys \in {<<>>, <<"k">>} : EnterTransaction(keys)
    \/ WatchDone
    \/ \E d \in {"normal", "error"} : ExitTransaction(d)
    \/ UnwatchTxnDone
    \/ EnterPipeline
    \/ \E d \in {"normal", "abort", "error"} : ExitPipeline(d)
    \/ GatherDone
    \/ GatherTimeout
    \/ UnwatchPipeDone
    \/ ReadReply
    \/ ServerClose
    \/ Close
    \/ WaitClosed
    \/ ReaderEOF
    \/ ReaderCancelled
    \/ \E t \in PoolTasks : PoolExecute(t)
    \/ \E t \in PoolTasks : PoolEnter(t)
    \/ \E t \in PoolTasks : LockTaken(t)
    \/ \E t \in PoolTasks : Connected(t)
    \/ \E t \in PoolTasks : PoolReply(t)
    \/ \E t \in PoolTasks, buffered \in BOOLEAN : PoolExit(t, buffered)
    \/ \E t \in PoolTasks : PoolTransaction(t)
    \/ \E c \in Members : MemberEOF(c)
    \/ \E c \in Members : MemberCancelled(c)
    \/ \E t \in PoolTasks : PoolClose(t)
    \/ CloseAllConnections
    \/ CloseAllGathered
    \/ \E t \in PoolTasks : PoolWaitClosed(t)
    \/ \E t \in PoolTasks : PoolWaited(t)

SpecAny == InitAny /\ [][NextAny]_vars

\* A pool and the tasks using it.
NextPool ==
    \/ \E t \in PoolTasks : PoolExecute(t)
    \/ \E t \in PoolTasks : PoolEnter(t)
    \/ \E t \in PoolTasks : LockTaken(t)
    \/ \E t \in PoolTasks : Connected(t)
    \/ \E t \in PoolTasks : PoolReply(t)
    \/ \E t \in PoolTasks, buffered \in BOOLEAN : PoolExit(t, buffered)
    \/ \E t \in PoolTasks : PoolTransaction(t)
    \/ \E c \in Members : MemberEOF(c)
    \/ \E c \in Members : MemberCancelled(c)
    \/ \E t \in PoolTasks : PoolClose(t)
    \/ CloseAllConnections
    \/ CloseAllGathered
    \/ \E t \in PoolTasks : PoolWaitClosed(t)
    \/ \E t \in PoolTasks : PoolWaited(t)

SpecPool == InitPool /\ [][NextPool]_vars

\* A larger pool whose tasks call execute() while its connections close.
NextRing ==
    \/ \E t \in PoolTasks : PoolExecute(t)
    \/ \E t \in PoolTasks : LockTaken(t)
    \/ \E t \in PoolTasks : Connected(t)
    \/ \E t \in PoolTasks : PoolReply(t)
    \/ \E c \in RingMembers : MemberEOF(c)
    \/ \E c \in RingMembers : MemberCancelled(c)

SpecRing == InitRing /\ [][NextRing]_vars

\* A pool of one connection and more tasks than it can serve at a time.
NextCrowd ==
    \/ \E t \in Crowd : PoolExecute(t)
    \/ \E t \in Crowd : PoolEnter(t)
    \/ \E t \in Crowd : LockTaken(t)
    \/ \E t \in Crowd : Connected(t)
    \/ \E t \in Crowd : PoolReply(t)
    \/ \E t \in Crowd, buffered \in BOOLEAN : PoolExit(t, buffered)
    \/ \E c \in Members : MemberEOF(c)
    \/ \E t \in Crowd : PoolClose(t)
    \/ CloseAllConnections
    \/ CloseAllGathered

SpecCrowd == InitCrowd /\ [][NextCrowd]_vars

----------------------------------------------------------------------------
\* Reply correlation and completion

\* C1: a future that was fulfilled from a server reply was fulfilled with the
\* reply to its own command, whatever the interleaving of execute calls,
\* pipeline scopes and transaction scopes.
ReplyToOwnCommand ==
    \A f \in Ids : fut[f].src # 0 => fut[f].src = f

\* C2: a future is queued at most once, and once the server has answered
\* everything written and no scope is open or exiting, no future that
\* execute() returned to a caller is still pending.
CompletedOnce ==
    /\ \A f \in Ids : Cardinality({i \in 1..Len(resolvers) : resolvers[i].fut = f}) <= 1
    /\ (stream = <<>> /\ stk = <<>> /\ pc = "run")
       => \A f \in Ids : cmd[f] \in UserKinds => fut[f].st # "pending"

\* C3: once the connection is torn down and the closed event is set, every
\* resolver still queued has a future failed with ConnectionClosedError.
TeardownFailsQueued ==
    cancelEvent =>
        /\ is_closed
        /\ \A i \in 1..Len(resolvers) :
             fut[resolvers[i].fut] = Failed("ConnectionClosedError")

----------------------------------------------------------------------------
\* Pipeline mode

\* C4: between the entry and the exit of a pipeline scope no step writes to
\* the stream, and the buffer changes only by execute() appending the command
\* it has just encoded.
BufferedUntilExit ==
    [][(/\ in_pipeline /\ \E i \in 1..Len(stk) : stk[i] = "pipe"
        /\ in_pipeline' /\ \E i \in 1..Len(stk') : stk'[i] = "pipe")
       => /\ written' = written
          /\ pipeline_buffer' = IF nextId' = nextId THEN pipeline_buffer
                                ELSE Append(pipeline_buffer, nextId)]_vars

\* Two commands are buffered in call order after one was written in normal
\* mode, and the stream holds only that one.
BufferedUntilExitWitness ==
    /\ in_pipeline
    /\ Top = "pipe"
    /\ written = <<1>>
    /\ pipeline_buffer = <<2, 3>>
    /\ call = Called("execute", "none", "none")

\* C5: a normal exit of a pipeline scope outside a transaction with commands
\* buffered writes the buffer as it stands, in one write, and goes on to
\* gather; when the gather ends the exit returns, and every future of the
\* scope holds the reply to its own command and can be awaited.
NormalFlush ==
    [][/\ (ExitPipeline("normal") /\ pipeline_buffer # <<>> /\ ~in_transaction)
          => /\ written' = written \o pipeline_buffer
             /\ call'.raised = "pending"
       /\ (GatherDone /\ local.disp = "normal" /\ ~local.nested)
          => /\ call'.raised = "none"
             /\ \A i \in 1..Len(local.futs) :
                  /\ fut[local.futs[i]].st = "result"
                  /\ fut[local.futs[i]].src = local.futs[i]
                  /\ ~locked[local.futs[i]]]_vars

\* C6: awaiting a future of a command buffered in an open pipeline scope
\* raises PipelineError, and awaiting a caller's future whose scope has been
\* left does not: it blocks or gives the future's outcome.
AwaitRefusedOnlyInScope ==
    \A f \in Ids :
        cmd[f] \in UserKinds =>
            ((AwaitOutcome(f) = "PipelineError")
                <=> (in_pipeline /\ \E i \in 1..Len(pipeline_buffer) : pipeline_buffer[i] = f))

\* A caller's buffered future was awaited in the open scope and refused.
AwaitRefusedWitness ==
    /\ call = Called("await", "none", "PipelineError")
    /\ in_pipeline
    /\ pipeline_buffer # <<>>

\* C7: on a connection that is neither closed nor closing, entering a pipeline
\* scope in pipeline mode raises PipelineError and entering a transaction
\* scope in a transaction raises TransactionError, at once and with the mode
\* flags, the buffer, the resolver queue, the futures, the stream and the open
\* scopes left as they were.
NestedEntryRefused ==
    [][/\ (EnterPipeline /\ ClosedCheck = "none" /\ in_pipeline)
          => /\ call' = Called("enter_pipe", "none", "PipelineError")
             /\ UNCHANGED <<connVars, futVars, wireVars, pc, stk, local>>
       /\ (\E keys \in {<<>>, <<"k">>} : EnterTransaction(keys)
           /\ ClosedCheck = "none" /\ in_transaction)
          => /\ call' = Called("enter_txn", "none", "TransactionError")
             /\ UNCHANGED <<connVars, futVars, wireVars, pc, stk, local>>]_vars

\* A pipeline scope with a command buffered, inside a transaction scope, has
\* just refused a nested entry.
NestedEntryRefusedWitness ==
    /\ call.op \in {"enter_pipe", "enter_txn"}
    /\ call.raised \in {"PipelineError", "TransactionError"}
    /\ stk = <<"txn", "pipe">>
    /\ in_pipeline
    /\ in_transaction
    /\ pipeline_buffer # <<>>
    /\ ClosedCheck = "none"

\* C8: once a pipeline scope exit has returned or raised, the connection is
\* not in pipeline mode, the buffer is empty and no pipeline-wrapped resolver
\* (a buffered command's or the MULTI placeholder's) is queued; the same holds
\* once a transaction scope exit has, unless a pipeline scope is still open.
ScopeExitClean ==
    /\ (call.op = "exit_pipe" /\ call.raised # "pending")
       => /\ ~in_pipeline
          /\ pipeline_buffer = <<>>
          /\ \A i \in 1..Len(resolvers) : ~resolvers[i].wrapped
    /\ (call.op = "exit_txn" /\ call.raised # "pending" /\ stk = <<>>)
       => /\ ~in_pipeline
          /\ pipeline_buffer = <<>>
          /\ \A i \in 1..Len(resolvers) : ~resolvers[i].wrapped

\* C9: a pipeline scope with commands buffered that exits through an exception
\* other than AbortTransaction writes nothing, fails the future of every
\* buffered command with that exception and raises that exception to the
\* caller, at once or when its gather ends.
ErrorExitReraises ==
    [][/\ (ExitPipeline("error") /\ pipeline_buffer # <<>>)
          => /\ written' = written
             /\ \A i \in 1..Len(pipeline_buffer) :
                  fut'[pipeline_buffer[i]] = Failed("Error")
             /\ call'.raised \in {"pending", "Error"}
       /\ (GatherDone /\ local.disp = "error")
          => call'.raised = "Error"]_vars

\* C10: a pipeline scope in a transaction that exits through AbortTransaction
\* with commands buffered writes none of them, fails the future of each with
\* AbortTransaction and suppresses the abort: the exit goes on to its gather
\* and its UNWATCH and returns without raising.
AbortSuppressed ==
    [][/\ (ExitPipeline("abort") /\ stk = <<"txn", "pipe">> /\ pipeline_buffer # <<>>)
          => /\ written' = written
             /\ \A i \in 1..Len(pipeline_buffer) :
                  fut'[pipeline_buffer[i]] = Failed("AbortTransaction")
             /\ call'.raised = "pending"
       /\ (GatherDone /\ local.disp = "abort" /\ stk = <<"txn", "pipe">>)
          => /\ call'.raised = "pending"
             /\ \A i \in 1..Len(local.futs) : local.futs[i] \notin SeqToSet(written')
       /\ (UnwatchPipeDone /\ local.disp = "abort" /\ stk = <<"txn", "pipe">>)
          => call'.raised = "none"]_vars

----------------------------------------------------------------------------
\* Transactions

\* C11: a normal exit of a pipeline scope nested in a transaction writes
\* MULTI, the buffered commands in order and EXEC; when its gather ends
\* without a watch conflict every buffered command's future holds its own
\* element of the EXEC array; and no caller's future ever receives the reply
\* to a MULTI.
TransactionFlush ==
    [][/\ (ExitPipeline("normal") /\ stk = <<"txn", "pipe">> /\ pipeline_buffer # <<>>)
          => /\ written' = written \o <<nextId>> \o pipeline_buffer \o <<nextId + 1>>
             /\ cmd'[nextId] = "MULTI"
             /\ cmd'[nextId + 1] = "EXEC"
       /\ (GatherDone /\ local.disp = "normal" /\ stk = <<"txn", "pipe">>
           /\ call'.raised = "none")
          => \A i \in 1..Len(local.futs) :
               /\ fut[local.futs[i]].st = "result"
               /\ fut[local.futs[i]].src = local.futs[i]
       /\ \A f \in Ids :
            (cmd'[f] \in UserKinds /\ fut'[f].src # 0) => cmd'[fut'[f].src] # "MULTI"]_vars

\* C12: when the server answers the EXEC of a flush with nil, the exit that
\* wrote it is waiting in its gather and the future of every command the
\* server had queued fails with WatchError; the exit then raises WatchError.
WatchConflict ==
    [][/\ (ReadReply /\ cmd[Head(stream)] = "EXEC" /\ srv'.aborted = Head(stream))
          => /\ pc = "gather"
             /\ local.wrote # <<>>
             /\ local.wrote[Len(local.wrote)] = Head(stream)
             /\ \A i \in 1..Len(srv.queue) :
                  fut'[srv.queue[i]] = Failed("WatchError")
       /\ (GatherDone /\ local.wrote # <<>>
           /\ srv.aborted = local.wrote[Len(local.wrote)])
          => call'.raised = "WatchError"]_vars

\* C13: a future fails with WatchError only after the server has answered an
\* EXEC with nil.
WatchErrorOnlyFromExec ==
    \A f \in Ids : fut[f] = Failed("WatchError") => srv.aborted # 0

\* C14: no future is resolved to one element of an array reply: an array
\* that answers a command, such as one executed in a transaction scope
\* before the nested pipeline scope, resolves that command's future whole.
ArrayReplyWhole ==
    \A f \in Ids : fut[f].val # "item"

\* C15: every exit of a transaction scope resets the transaction flag and the
\* watch set, and when keys were watched the stream carries, after the WATCH,
\* an UNWATCH (or the EXEC of a nested flush) by the time the scope returns;
\* without keys, scope entry and a normal exit issue no command.
TransactionExit ==
    [][/\ (((\E d \in {"normal", "error"} : ExitTransaction(d)) \/ UnwatchTxnDone)
           /\ call'.raised # "pending")
          => /\ ~in_transaction'
             /\ watched_keys' = <<>>
             /\ watched_keys # <<>> =>
                  \A i \in 1..Len(written') :
                      cmd'[written'[i]] = "WATCH" =>
                          \E j \in (i + 1)..Len(written') :
                              cmd'[written'[j]] \in {"UNWATCH", "EXEC"}
       /\ (EnterTransaction(<<>>) \/ (ExitTransaction("normal") /\ watched_keys = <<>>))
          => /\ written' = written
             /\ pipeline_buffer' = pipeline_buffer
             /\ nextId' = nextId]_vars

\* C16: a pipeline scope exit with nothing buffered, and one through
\* AbortTransaction, writes nothing when no keys are watched and writes one
\* UNWATCH, nothing else, when keys are watched.
UnflushedExit ==
    [][/\ ((\E d \in {"normal", "abort", "error"} : ExitPipeline(d))
           /\ pipeline_buffer = <<>>)
          => IF watched_keys = <<>> THEN written' = written
             ELSE written' = Append(written, nextId) /\ cmd'[nextId] = "UNWATCH"
       /\ (ExitPipeline("abort") /\ pipeline_buffer # <<>>)
          => written' = written
       /\ (GatherDone /\ local.disp = "abort")
          => IF watched_keys = <<>> THEN written' = written
             ELSE written' = Append(written, nextId) /\ cmd'[nextId] = "UNWATCH"
       /\ UnwatchPipeDone => written' = written]_vars

----------------------------------------------------------------------------
\* Closing

\* C17: in every state, a connection that reports is_closed does not report
\* is_closing.
ClosedNotClosing ==
    is_closed => ~is_closing

\* C18: for a connection and for a pool alike, close() while the resource is
\* closing raises the Closing error, close() after close() and wait_closed()
\* raises the Closed error, wait_closed() on a resource that is not closing
\* (never closed, or already waited for) raises RuntimeError, and a resource
\* whose wait_closed() returned reports is_closed.
CloseProtocol ==
    [][/\ (Close /\ is_closing) => call'.raised = "ConnectionClosingError"
       /\ (Close /\ call = Called("wait_closed", "none", "none"))
             => call'.raised = "ConnectionClosedError"
       /\ (WaitClosed /\ (~is_closing \/ call = Called("wait_closed", "none", "none")))
             => call'.raised = "RuntimeError"
       /\ (WaitClosed /\ call'.raised = "none") => is_closed'
       /\ \A t \in PoolTasks :
            LET waited == ptask[t].pc = "idle" /\ ptask[t].op = "wait_closed"
                          /\ ptask[t].raised = "none"
            IN /\ (PoolClose(t) /\ pool_is_closing) => ptask'[t].raised = "PoolClosingError"
               /\ (PoolClose(t) /\ waited) => ptask'[t].raised = "PoolClosedError"
               /\ (PoolWaitClosed(t) /\ (~pool_is_closing \/ waited))
                     => ptask'[t].raised = "RuntimeError"
               /\ ((PoolWaitClosed(t) \/ PoolWaited(t)) /\ ptask'[t].raised = "none")
                     => pool_is_closed']_vars

\* A pool closed and waited for: its second close() raised PoolClosedError and
\* a further wait_closed() raised RuntimeError.
CloseProtocolWitness ==
    /\ pool_is_closed
    /\ ptask[1] = PTask("idle", "close", 0, 0, "PoolClosedError")
    /\ ptask[2] = PTask("idle", "wait_closed", 0, 0, "RuntimeError")

\* C19: execute and scope entry on a closing or closed connection raise
\* ConnectionClosingError or ConnectionClosedError, execute and scope entry on
\* a closing or closed pool raise PoolClosingError or PoolClosedError, and the
\* failing call changes nothing: no resolver, no write, no buffered command,
\* no mode flag, no connection acquired.
ClosedFailsFirst ==
    [][/\ ((is_closing \/ is_closed)
           /\ ((\E k \in UserKinds : ExecuteClose(k)) \/ EnterPipeline
               \/ (\E keys \in {<<>>, <<"k">>} : EnterTransaction(keys))))
             => /\ call'.raised \in {"ConnectionClosingError", "ConnectionClosedError"}
                /\ UNCHANGED <<connVars, futVars, wireVars, pc, stk, local>>
       /\ \A t \in PoolTasks :
            ((pool_is_closing \/ pool_is_closed) /\ (PoolExecute(t) \/ PoolEnter(t)))
              => /\ ptask'[t].pc = ptask[t].pc
                 /\ ptask'[t].raised \in {"PoolClosingError", "PoolClosedError"}
                 /\ ptask'[t].ctx = ptask[t].ctx
                 /\ UNCHANGED <<pool_closing, close_event, idle, loaned, acquiring, mem,
                                lock, waiters, held, closer>>]_vars

\* A pool whose close() has run, with a connection still loaned to a scope:
\* execute() in the other task raised PoolClosingError.
ClosedFailsFirstWitness ==
    /\ pool_is_closing
    /\ \E t \in PoolTasks : ptask[t].pc = "body"
    /\ \E t \in PoolTasks : ptask[t].op = "execute" /\ ptask[t].raised = "PoolClosingError"

\* C20: cancelling a pending future leaves its resolver queued; the reply to
\* its command is consumed against that resolver and changes no future; and
\* an EXEC array whose commands' resolvers head the queue, one of them
\* cancelled, still resolves every other command of the array with its own
\* element and takes all their resolvers off the queue.
CancelKeepsAlignment ==
    [][/\ \A f \in Ids : Cancel(f) => resolvers' = resolvers
       /\ (/\ ReadReply
           /\ ~srv.multi
           /\ resolvers # <<>>
           /\ Head(resolvers).fut = Head(stream)
           /\ fut[Head(stream)].st = "cancelled")
             => /\ resolvers' = Tail(resolvers)
                /\ fut' = fut
       /\ (/\ ReadReply
           /\ cmd[Head(stream)] = "EXEC"
           /\ srv.multi
           /\ srv'.aborted # Head(stream)
           /\ Len(resolvers) >= Len(srv.queue)
           /\ \A i \in 1..Len(srv.queue) : resolvers[i].fut = srv.queue[i]
           /\ \E i \in 1..Len(srv.queue) : fut[srv.queue[i]].st = "cancelled")
             => /\ resolvers' = SubSeq(resolvers, Len(srv.queue) + 1, Len(resolvers))
                /\ \A i \in 1..Len(srv.queue) :
                     fut[srv.queue[i]].st = "pending" => fut'[srv.queue[i]].src = srv.queue[i]]_vars

-----------------------------------------------------------------------------
\* Timeouts, pending commands and the queue's order

\* C21: when wait_for gives up on the gather of a pipeline-scope exit, every
\* gathered future that is still pending fails with a timeout error.
TimeoutFailsPending ==
    [][GatherTimeout
         => \A i \in 1..Len(local.resolvers) :
              fut[local.resolvers[i]].st = "pending"
                => fut'[local.resolvers[i]] = Failed("TimeoutError")]_vars

\* C22: a pipeline scope that is left normally while a command written
\* before it is still awaiting its reply raises nothing from unlocking its
\* futures: the exit goes on to its gather, or returns.
PendingNormalExit ==
    [][(/\ ExitPipeline("normal")
        /\ ~in_transaction
        /\ pipeline_buffer # <<>>
        /\ \E i \in 1..Len(resolvers) :
             ~resolvers[i].wrapped /\ fut[resolvers[i].fut].st = "pending")
         => call'.raised \in {"pending", "none"}]_vars

\* The place of command c on the wire: among the commands written and not
\* yet answered, then among the buffered ones (0: it is on neither).
RECURSIVE Place(_, _)
Place(c, wire) ==
    IF wire = <<>> THEN 0
    ELSE IF wire[Len(wire)] = c THEN Len(wire)
    ELSE Place(c, SubSeq(wire, 1, Len(wire) - 1))

\* C29: the resolver queue lists the pending commands in the order their
\* bytes were written to, or buffered for, the stream: a flush keeps every
\* resolver, the MULTI placeholder included, at the place of its command.
QueueInWireOrder ==
    [][(\E d \in {"normal", "abort", "error"} : ExitPipeline(d))
         => LET wire == stream' \o pipeline_buffer' IN
            \A i, j \in 1..Len(resolvers') :
               (/\ i < j
                /\ Place(resolvers'[i].fut, wire) # 0
                /\ Place(resolvers'[j].fut, wire) # 0)
                 => Place(resolvers'[i].fut, wire) < Place(resolvers'[j].fut, wire)]_vars

\* C30: a QUEUED reply consumed in transaction mode changes neither the
\* resolver queue nor any future, and every other reply that is not EXEC's
\* takes exactly one resolver off the queue.
QueuedPopsNothing ==
    [][/\ (ReadReply /\ in_transaction /\ srv.multi /\ cmd[Head(stream)] # "EXEC")
            => UNCHANGED <<resolvers, fut>>
       /\ (ReadReply /\ ~srv.multi /\ cmd[Head(stream)] # "EXEC")
            => Len(resolvers') = Len(resolvers) - 1]_vars

-----------------------------------------------------------------------------
\* The pool's loans

\* The connection a step hands to task t: the one its execute() now awaits, or
\* the one its new scope holds; 0 when the step hands none.
HandedTo(t) ==
    IF ptask'[t].pc = "reply" /\ ptask[t].pc # "reply" THEN ptask'[t].conn
    ELSE IF Len(held'[t]) > Len(held[t]) THEN held'[t][Len(held'[t])]
    ELSE 0

\* The pool's sets once connection c has been released.
Released(c) ==
    /\ c \notin loaned'
    /\ idle' = IF member_is_closed(c) \/ member_is_closing(c) THEN idle ELSE Appended(idle, c)

\* C23: a connection loaned to a pool scope is in in_use and not in idle until
\* the scope's exit, and is handed to no execute() and to no other scope
\* meanwhile; when the exit of a task's only scope ends, the connection has
\* left in_use and is the new tail of idle if it is open, in neither if it is
\* closed or closing.
LoanIsExclusive ==
    [][\A t \in PoolTasks :
         /\ HandedTo(t) # 0 => HandedTo(t) \notin loaned
         /\ (\A i \in 1..Len(held[t]) : held[t][i] \in loaned /\ held[t][i] \notin SeqToSet(idle))
         /\ ((\E buffered \in BOOLEAN : PoolExit(t, buffered))
              /\ held[t] = <<ptask[t].ctx>> /\ ptask'[t].pc # "lock")
              => Released(ptask[t].ctx)
         /\ (LockTaken(t) /\ ptask[t].op = "release" /\ held[t] = <<>>)
              => Released(ptask[t].conn)]_vars

\* C24: the pool's size, the idle connections plus the loaned ones plus those
\* being opened, never exceeds max_size.
SizeWithinMax == size <= MaxSize

\* Task t runs a round of _acquire_unused_connection in this step: it calls
\* execute() or enters a scope on an open pool with the lock free, or it takes
\* the lock after waiting for it or after notify() woke it.
AcquisitionRound(t) ==
    /\ lock = 0
    /\ \/ (PoolExecute(t) \/ PoolEnter(t)) /\ PoolClosedCheck = "none"
       \/ LockTaken(t) /\ ptask[t].op # "release"

\* Task t ends _release_connection in this step.
ReleaseEnds(t) ==
    \/ LockTaken(t) /\ ptask[t].op = "release"
    \/ /\ \E buffered \in BOOLEAN : PoolExit(t, buffered)
       /\ ptask'[t].pc # "lock"
       /\ ptask'[t].raised = "none"

\* C25: an acquirer that finds no idle connection to take, the pool's size
\* (stale connections pruned) being max_size, parks on the condition: it opens
\* no connection and raises nothing.  A release wakes the first parked task,
\* and a task that takes the lock with an open idle connection in the ring
\* has that connection returned to it: its execute() runs on it, its scope
\* entry binds it and marks it in use.
SaturatedParks ==
    [][\A t \in PoolTasks :
         /\ (/\ AcquisitionRound(t)
             /\ Scan.conn = 0
             /\ Len(Scan.ring) + Cardinality(loaned) + acquiring = MaxSize)
              => /\ ptask'[t].pc = "parked"
                 /\ ptask'[t].raised = "pending"
                 /\ waiters' = Append(waiters, t)
                 /\ UNCHANGED <<acquiring, loaned, mem>>
         /\ (ReleaseEnds(t) /\ waiters # <<>>)
              => /\ waiters' = Tail(waiters)
                 /\ ptask'[Head(waiters)].pc = "lock"
         /\ (AcquisitionRound(t) /\ ptask[t].pc = "lock" /\ Scan.conn # 0)
              => IF ptask[t].op = "execute"
                 THEN ptask'[t].pc = "reply" /\ ptask'[t].conn = Scan.conn
                 ELSE ptask'[t].ctx = Scan.conn /\ Scan.conn \in loaned']_vars

\* Every connection the pool may hold is loaned and a scope entry is parked.
SaturatedParksWitness ==
    /\ idle = <<>>
    /\ size = MaxSize
    /\ \E t \in PoolTasks : ptask[t].pc = "parked" /\ ptask[t].op = "enter"

\* C26: once the pool reports is_closed, every connection in idle or in in_use
\* is closed and the pool's size is 0.
ClosedPoolIsEmpty ==
    pool_is_closed =>
        /\ \A c \in SeqToSet(idle) \cup loaned : member_is_closed(c)
        /\ size = 0

\* C27: the exit of a pool scope leaves and releases the connection that
\* scope acquired at its entry, the task's innermost open one, whatever scopes
\* other tasks or the same task have open; a connection is in idle at most
\* once, and with every scope exited and released no connection is in in_use.
ExitReleasesOwn ==
    [][/\ \A t \in PoolTasks :
            (\E buffered \in BOOLEAN : PoolExit(t, buffered))
              => ptask[t].ctx = held[t][Len(held[t])]
       /\ \A i, j \in 1..Len(idle) : idle[i] = idle[j] => i = j
       /\ (\A t \in PoolTasks : held[t] = <<>> /\ ptask[t].pc = "idle" /\ ptask[t].op = "exit"
                                  /\ ptask[t].raised = "none")
            => loaned = {}]_vars

\* C28: a transaction scope opened through an open pool with an open idle
\* connection takes that connection out of idle and into in_use for the
\* scope.
PoolTransactionLoans ==
    [][\A t \in PoolTasks :
         (PoolTransaction(t) /\ PoolClosedCheck = "none" /\ lock = 0 /\ Scan.conn # 0)
           => /\ Scan.conn \notin SeqToSet(idle')
              /\ loaned' = loaned \cup {Scan.conn}]_vars

-----------------------------------------------------------------------------
\* The idle ring

\* C31: a connection is in at most one of idle and in_use, and at most once
\* in idle.
IdleAndLoanedDisjoint ==
    /\ SeqToSet(idle) \cap loaned = {}
    /\ \A i, j \in 1..Len(idle) : idle[i] = idle[j] => i = j

\* C32: a round of the acquisition returns no connection that is closed or
\* closing: the caller's execute() or scope entry does not find it so, and
\* every stale connection the scan looked at has left idle.
StaleNeverReturned ==
    [][\A t \in PoolTasks :
         AcquisitionRound(t)
           => /\ Scan.conn # 0 => ~Stale(Scan.conn)
              /\ HandedTo(t) # 0 => ~Stale(HandedTo(t))
              /\ ptask'[t].raised \notin {"ConnectionClosedError", "ConnectionClosingError"}
              /\ \A c \in Inspected : Stale(c) => c \notin SeqToSet(idle')]_vars

\* Tasks that have only called execute(): connection 1 has closed and has been
\* pruned from idle, and an execute() awaits its reply on connection 2.
StaleNeverReturnedWitness ==
    /\ \A t \in PoolTasks : ptask[t].op \in {"none", "execute"}
    /\ Stale(1) /\ 1 \notin SeqToSet(idle)
    /\ \E t \in PoolTasks : ptask[t].pc = "reply" /\ ptask[t].conn = 2

\* C33: a round of the acquisition returns an idle connection only if it is
\* not in use, and with every idle connection in use and the pool's size under
\* max_size the round opens a new connection.
BusyNeverReturned ==
    [][\A t \in PoolTasks :
         AcquisitionRound(t)
           => /\ Scan.conn # 0 => ~member_in_use(Scan.conn)
              /\ (/\ idle # <<>>
                  /\ \A i \in 1..Len(idle) : ~Stale(idle[i]) /\ member_in_use(idle[i])
                  /\ size < MaxSize)
                   => ptask'[t].pc = "connecting"]_vars

\* C34: with every idle connection closed and none loaned or being opened,
\* the next round of the acquisition removes them all from idle and opens one
\* connection, which is then the only one in idle.
AllStalePruned ==
    [][\A t \in PoolTasks :
         /\ (/\ AcquisitionRound(t)
             /\ idle # <<>>
             /\ \A i \in 1..Len(idle) : member_is_closed(idle[i])
             /\ loaned = {} /\ acquiring = 0)
              => /\ idle' = <<>>
                 /\ acquiring' = 1
                 /\ ptask'[t].pc = "connecting"
         /\ (Connected(t) /\ ptask[t].op = "execute" /\ idle = <<>>)
              => /\ Len(idle') = 1
                 /\ ~mem'[idle'[1]].closing /\ ~mem'[idle'[1]].shut /\ ~mem'[idle'[1]].event]_vars

-----------------------------------------------------------------------------
\* Failing exits, termination and rejected commands

\* C35: a pipeline scope left through AbortTransaction or another exception
\* fails and takes off the queue the futures of the commands it buffered and
\* no others: a command written before the scope, its reply still pending,
\* keeps its future pending and its resolver queued.
FailingExitSparesEarlier ==
    [][\A d \in {"abort", "error"} :
         (ExitPipeline(d) /\ pipeline_buffer # <<>>)
           => \A i \in 1..Len(resolvers) :
                resolvers[i].fut \notin SeqToSet(pipeline_buffer)
                  => /\ fut'[resolvers[i].fut] = fut[resolvers[i].fut]
                     /\ resolvers[i] \in SeqToSet(resolvers')]_vars

\* C37: when the WATCH of a transaction scope's entry fails, by an error
\* reply or by the await raising, the body is not run and the connection is
\* out of transaction mode with no watched keys.
WatchFailureLeavesClean ==
    [][(/\ \/ WatchDone
           \/ /\ \E keys \in {<<>>, <<"k">>} : EnterTransaction(keys)
              /\ ClosedCheck = "none"
              /\ ~in_transaction
        /\ call'.op = "enter_txn"
        /\ call'.raised \notin {"none", "pending"})
         => /\ in_transaction' = FALSE
            /\ watched_keys' = <<>>
            /\ stk' = stk]_vars

\* C38: when the server refuses a buffered command of a transaction at queue
\* time, no future but that command's own receives its error reply, and no
\* gather of such a flush is left waiting for its timeout with the server's
\* answers all read.
RejectionAttributed ==
    [][/\ \A f \in Ids :
            (fut'[f].val = "ResponseError" /\ cmd[fut'[f].src] \in UserKinds)
              => fut'[f].src = f
       /\ ~(/\ GatherTimeout
            /\ local.nested
            /\ \E g \in Ids : /\ fut[g].val = "ResponseError"
                              /\ fut[g].src \in SeqToSet(local.futs))]_vars

\* C36: a scope entry or exit that awaits the reply to a command it issued
\* (WATCH, UNWATCH) is not left waiting once the server has answered every
\* command written: with nothing more to read, the future it awaits is done,
\* so that it returns or raises.
ExitsComplete ==
    (/\ pc \in {"watch_wait", "unwatch_txn", "unwatch_pipe"}
     /\ stream = <<>>
     /\ readerPc = "read")
      => IsDone(local.wait)

-----------------------------------------------------------------------------
\* Parked acquirers

\* C39: no acquirer is left parked on the condition while an open idle
\* connection that is not in use is there for it, with no task on its way to
\* take the lock or to notify.
NoneParkedNeedlessly ==
    ~(/\ \E t \in DOMAIN ptask : ptask[t].pc = "parked"
      /\ lock = 0
      /\ \A u \in DOMAIN ptask : ptask[u].pc \notin {"lock", "connecting"}
      /\ \E i \in 1..Len(idle) : ~Stale(idle[i]) /\ ~member_in_use(idle[i]))

\* C40: once the pool is closed no acquirer is left parked on the condition:
\* an acquirer that was parked when close() ran has been woken by the time the
\* close is over, to fail with PoolClosingError or PoolClosedError.
ClosedPoolWakesParked ==
    (pool_is_closed /\ closer.pc = "done" /\ lock = 0)
        => \A t \in DOMAIN ptask : ptask[t].pc # "parked"
====
